---- MODULE Spec2Model ----
(***************************************************************************)
(* A model of the synthetic calcium-imaging movie generators               *)
(*   src/Reference Scripts/SimCaD_Scripts/SimCaD.py        (Markov spikes) *)
(*   src/Reference Scripts/SimCaD_Scripts/SimCaD_Hawkes.py (Hawkes spikes) *)
(*                                                                         *)
(* Numbers.  Python floats are modelled as fixed-point integers in units   *)
(* of 1/One (One = 64): the real 0.25 is 16, the real 1.0 is 64.  A        *)
(* product of two such numbers is FMul, which rounds down as a float       *)
(* product rounds to the nearest representable value.                      *)
(*                                                                         *)
(* Time constants.  exp() is not available, so a time constant tau is      *)
(* named by the numerator c of exp(-1/tau) = c/4: c = 1, 2, 3 stand for    *)
(* tau = 1/ln 4, 1/ln 2, 1/ln(4/3) (0.72, 1.44, 3.48 frames), and c = 0 is *)
(* tau = 0.  exp(-k/tau) is then (c/4)^k, rounded once.                    *)
(*                                                                         *)
(* Randomness.  The module-level generator `rng` is a state variable: a    *)
(* tape of uniform draws (its seed) read circularly from a position that   *)
(* every draw advances.  A draw u in 0..UniformLevels-1 is the uniform     *)
(* double u/UniformLevels.                                                 *)
(***************************************************************************)
EXTENDS Integers, Sequences, FiniteSets, TLC

VARIABLES
    rng,    \* the module-level random generator (SimCaD.py:7, SimCaD_Hawkes.py:6)
    spk,    \* one call of generate_markov_spikes / generate_hawkes_spikes
    flt,    \* one call of apply_ar2_filter / bi_exp_filter, on two spike trains
    shf,    \* one call of shift_frame
    fpt,    \* one call of generate_gaussian_footprint
    \* one process calling generate_synthetic_calcium_movie:
    cfg,            \* the arguments of the call
    pc,             \* where the call is
    calls,          \* the calls made so far in this process
    first,          \* what the first call returned
    result,         \* what the current call returned
    error,          \* the exception the current call raised
    cell_i,         \* the cell index i of the running loop
    motion_shifts, cell_masks, cell_traces, spikes_all,
    movie, moved_movie, noise   \* the locals of the call

locals == <<cell_i, motion_shifts, cell_masks, cell_traces, spikes_all,
            movie, moved_movie, noise>>
genVars == <<cfg, pc, calls, first, result, error, locals>>
vars == <<rng, spk, flt, shf, fpt, genVars>>

-----------------------------------------------------------------------------
(* Bounds of the model *)

MaxFrames == 3
TapeLen == 3
UniformLevels == 4
MaxAttempts == 2
MaxSide == 3
MaxCells == 2
MaxMovieFrames == 2
MaxCalls == 2

-----------------------------------------------------------------------------
(* Fixed-point numbers *)

One == 2^6

Min(a, b) == IF a < b THEN a ELSE b
Max(a, b) == IF a > b THEN a ELSE b
Abs(a) == IF a < 0 THEN -a ELSE a

FMul(a, b) == (a * b) \div One

RECURSIVE Pow(_, _)
Pow(b, k) == IF k = 0 THEN 1 ELSE b * Pow(b, k - 1)

\* np.exp(-k / tau) for an integer k >= 0 and the time constant named c
ExpNeg(k, c) == ((2 * One * Pow(c, k)) \div Pow(4, k) + 1) \div 2

RECURSIVE SumSeq(_)
SumSeq(s) == IF s = <<>> THEN 0 ELSE s[1] + SumSeq(Tail(s))

-----------------------------------------------------------------------------
(* The random generator *)

Uniform(u) == (u * One) \div UniformLevels

\* the k-th upcoming draw (k = 0 is the next one)
RngPeek(r, k) == r.tape[((r.pos + k) % Len(r.tape)) + 1]

RngAdvance(r, n) == [r EXCEPT !.pos = (r.pos + n) % Len(r.tape)]

\* rng.choice([0, 1], p=p): the index of the first cumulative probability above u
ChoiceSwapped(p, u) == IF Uniform(u) < p[1] THEN 1 ELSE 0
Choice(p, u) == IF Uniform(u) < p[1] THEN 0 ELSE 1

Tapes == [1..TapeLen -> 0..(UniformLevels - 1)]

-----------------------------------------------------------------------------
(* Spike generation *)

\* the asserts of generate_markov_spikes
MarkovAssert(P) ==
    /\ Len(P) = 2
    /\ \A a \in 1..Len(P) : Len(P[a]) = 2
    /\ \A a \in 1..Len(P) : SumSeq(P[a]) = One

\* `if spikes.sum() > 0: break`
AcceptedAlways(spikes) == TRUE
Accepted(spikes) == SumSeq(spikes) > 0

\* one pass of the for loop of generate_markov_spikes over a fresh zero array:
\* the first n elements of the train, drawn from r
RECURSIVE MarkovChain(_, _, _)
MarkovChain(n, P, r) ==
    IF n = 0 THEN <<>>
    ELSE IF n = 1 THEN <<0>>
    ELSE LET prev == MarkovChain(n - 1, P, r)
         IN  Append(prev, Choice(P[prev[n - 1] + 1], RngPeek(r, n - 2)))

MarkovDraws(n) == Max(0, n - 1)

\* lam_i of generate_hawkes_spikes: the inner loop over k < i, then the clamp
RECURSIVE HawkesExcitationFromSpike(_, _, _, _, _)
HawkesExcitationFromSpike(i, k, spikes, alpha, tau) ==
    IF k >= i THEN 0
    ELSE (IF spikes[k + 1] = 1 THEN FMul(alpha, ExpNeg(i - k - 1, tau)) ELSE 0)
         + HawkesExcitationFromSpike(i, k + 1, spikes, alpha, tau)
RECURSIVE HawkesExcitation(_, _, _, _, _)
HawkesExcitation(i, k, spikes, alpha, tau) ==
    IF k >= i THEN 0
    ELSE (IF spikes[k + 1] = 1 THEN FMul(alpha, ExpNeg(i - k, tau)) ELSE 0)
         + HawkesExcitation(i, k + 1, spikes, alpha, tau)

HawkesIntensityUnclamped(i, spikes, mu, alpha, tau) ==
    mu + HawkesExcitation(i, 0, spikes, alpha, tau)
HawkesIntensity(i, spikes, mu, alpha, tau) ==
    Min(mu + HawkesExcitation(i, 0, spikes, alpha, tau), One)

\* one pass of the outer for loop of generate_hawkes_spikes
RECURSIVE HawkesChain(_, _, _, _, _)
HawkesChain(n, mu, alpha, tau, r) ==
    IF n = 0 THEN <<>>
    ELSE LET prev == HawkesChain(n - 1, mu, alpha, tau, r)
             lam_i == HawkesIntensity(n - 1, prev, mu, alpha, tau)
         IN  Append(prev, IF Uniform(RngPeek(r, n - 1)) < lam_i THEN 1 ELSE 0)

HawkesDraws(n) == Max(0, n)

\* the values lam_i takes in one pass that draws the train spikes
HawkesLams(spikes, mu, alpha, tau) ==
    [i \in 1..Len(spikes) |-> HawkesIntensity(i - 1, spikes, mu, alpha, tau)]

\* The running-sum form of the excitation that the specification recommends
\* (no such code exists in the repository): one accumulator, multiplied by
\* exp(-1/tau) at the start of every step and increased by alpha after a step
\* that drew a spike.  The value is the accumulator as step i (from 0) uses it.
RECURSIVE RunningExcite(_, _, _, _)
RunningExcite(i, spikes, alpha, tau) ==
    IF i = 0 THEN 0
    ELSE FMul(RunningExcite(i - 1, spikes, alpha, tau)
                  + (IF spikes[i] = 1 THEN alpha ELSE 0),
              ExpNeg(1, tau))

RunningIntensity(i, spikes, mu, alpha, tau) ==
    Min(mu + RunningExcite(i, spikes, alpha, tau), One)

RECURSIVE RunningChain(_, _, _, _, _)
RunningChain(n, mu, alpha, tau, r) ==
    IF n = 0 THEN <<>>
    ELSE LET prev == RunningChain(n - 1, mu, alpha, tau, r)
             lam_i == RunningIntensity(n - 1, prev, mu, alpha, tau)
         IN  Append(prev, IF Uniform(RngPeek(r, n - 1)) < lam_i THEN 1 ELSE 0)

-----------------------------------------------------------------------------
(* SpikeSpec: one call of a spike generator on bounded inputs *)

Rows == {<<One, 0>>, <<One \div 2, One \div 2>>, <<0, One>>,
         <<One \div 2, One \div 4>>}
MarkovMatrices ==
    {<<a, b>> : a \in Rows, b \in Rows} \cup {<<<<One, 0>>>>}
HawkesMus == {0, One \div 4, One \div 2}
HawkesAlphas == {0, One \div 2, One}
HawkesTaus == {2}

SpkInputs ==
    {[strategy |-> "markov", num_frames |-> n, P |-> P,
      mu |-> 0, alpha |-> 0, tau |-> 2] :
        n \in 0..MaxFrames, P \in MarkovMatrices}
    \cup
    {[strategy |-> "hawkes", num_frames |-> n, P |-> <<>>,
      mu |-> mu, alpha |-> alpha, tau |-> tau] :
        n \in 0..MaxFrames, mu \in HawkesMus, alpha \in HawkesAlphas,
        tau \in HawkesTaus}

FltIdle == [pc |-> "idle"]
ShfIdle == [pc |-> "idle"]
FptIdle == [pc |-> "idle"]
NoResult == <<>>
GenIdle ==
    /\ cfg = <<>> /\ pc = "idle" /\ calls = 0
    /\ first = NoResult /\ result = NoResult /\ error = ""
    /\ cell_i = 0 /\ motion_shifts = <<>> /\ cell_masks = <<>>
    /\ cell_traces = <<>> /\ spikes_all = <<>>
    /\ movie = <<>> /\ moved_movie = <<>> /\ noise = <<>>

SpkInit ==
    /\ flt = FltIdle
    /\ shf = ShfIdle
    /\ fpt = FptIdle
    /\ GenIdle
    /\ rng \in {[tape |-> t, pos |-> 0] : t \in Tapes}
    /\ spk \in {[in |-> a, pc |-> "call", spikes |-> <<>>, attempts |-> 0,
                 turn |-> 0, last |-> <<>>, lams |-> <<>>] :
                    a \in SpkInputs}

\* generate_markov_spikes, lines 27-28: the asserts
MarkovEnter ==
    /\ spk.pc = "call"
    /\ spk.in.strategy = "markov"
    /\ spk' = [spk EXCEPT !.pc = IF MarkovAssert(spk.in.P)
                                 THEN "loop" ELSE "raised"]
    /\ UNCHANGED <<rng, flt, shf, fpt, genVars>>

\* generate_hawkes_spikes has no check of its arguments
HawkesEnter ==
    /\ spk.pc = "call"
    /\ spk.in.strategy = "hawkes"
    /\ spk' = [spk EXCEPT !.pc = "loop"]
    /\ UNCHANGED <<rng, flt, shf, fpt, genVars>>

\* one iteration of `while True` in generate_markov_spikes
MarkovAttempt ==
    /\ spk.pc = "loop"
    /\ spk.in.strategy = "markov"
    /\ LET spikes == MarkovChain(spk.in.num_frames, spk.in.P, rng)
       IN  /\ spk' = IF Accepted(spikes)
                     THEN [spk EXCEPT !.pc = "returned", !.spikes = spikes,
                                      !.attempts = Min(@ + 1, MaxAttempts),
                                      !.last = spikes]
                     ELSE [spk EXCEPT !.attempts = Min(@ + 1, MaxAttempts),
                                      !.turn = 1 - @, !.last = spikes]
           /\ rng' = RngAdvance(rng, MarkovDraws(spk.in.num_frames))
           /\ UNCHANGED <<flt, shf, fpt, genVars>>

\* one iteration of `while True` in generate_hawkes_spikes
HawkesAttempt ==
    /\ spk.pc = "loop"
    /\ spk.in.strategy = "hawkes"
    /\ LET spikes == HawkesChain(spk.in.num_frames, spk.in.mu, spk.in.alpha,
                                 spk.in.tau, rng)
       IN  /\ spk' = IF Accepted(spikes)
                     THEN [spk EXCEPT !.pc = "returned", !.spikes = spikes,
                                      !.attempts = Min(@ + 1, MaxAttempts),
                                      !.last = spikes,
                                      !.lams = HawkesLams(spikes, spk.in.mu,
                                                  spk.in.alpha, spk.in.tau)]
                     ELSE [spk EXCEPT !.attempts = Min(@ + 1, MaxAttempts),
                                      !.turn = 1 - @, !.last = spikes,
                                      !.lams = HawkesLams(spikes, spk.in.mu,
                                                  spk.in.alpha, spk.in.tau)]
           /\ rng' = RngAdvance(rng, HawkesDraws(spk.in.num_frames))
           /\ UNCHANGED <<flt, shf, fpt, genVars>>

SpkNext == MarkovEnter \/ HawkesEnter \/ MarkovAttempt \/ HawkesAttempt

SpikeSpec == SpkInit /\ [][SpkNext]_vars

\* the interpreter runs the loop as long as it can continue
FairSpikeSpec == SpikeSpec /\ WF_vars(SpkNext)

\* C1: every spike train a spike generator returns has length num_frames,
\* holds only 0 and 1, and holds at least one 1.
C1_ReturnedTrainHasSpike ==
    spk.pc = "returned" =>
        /\ Len(spk.spikes) = spk.in.num_frames
        /\ \A i \in 1..Len(spk.spikes) : spk.spikes[i] \in {0, 1}
        /\ \E i \in 1..Len(spk.spikes) : spk.spikes[i] = 1

\* a train returned after an earlier attempt was rejected
C1_Witness ==
    /\ spk.pc = "returned"
    /\ spk.attempts >= 2
    /\ spk.in.num_frames >= 2

\* C22: a train the Markov generator returns starts with 0, and holds no
\* transition a -> b whose probability P[a][b] is 0: every element after the
\* first is drawn from the row of the element before it.
C22_MarkovFollowsMatrix ==
    (spk.pc = "returned" /\ spk.in.strategy = "markov") =>
        /\ spk.spikes[1] = 0
        /\ \A i \in 1..(Len(spk.spikes) - 1) :
              spk.in.P[spk.spikes[i] + 1][spk.spikes[i + 1] + 1] # 0

\* a returned train that leaves the spiking state, under a matrix that
\* forbids staying in it
C22_Witness ==
    /\ spk.pc = "returned"
    /\ spk.in.strategy = "markov"
    /\ spk.in.P[2] = <<One, 0>>
    /\ spk.in.P[1] = <<One \div 2, One \div 2>>
    /\ spk.spikes = <<0, 1, 0>>

\* the excitation at step i (one-based) of a pass that drew train so far:
\* the sum over the earlier steps k that hold a spike
PriorSpikes(train, i) == {k \in 1..(i - 1) : train[k] = 1}
ExcitationSum(train, i, alpha, tau) ==
    LET term(k) == IF train[k] = 1 THEN FMul(alpha, ExpNeg(i - k, tau)) ELSE 0
        acc[k \in 0..(i - 1)] == IF k = 0 THEN 0 ELSE acc[k - 1] + term(k)
    IN  acc[i - 1]

\* C23: at every step i of a pass of the Hawkes generator the probability of
\* the draw is min(1, mu + the sum over the earlier steps k of this pass
\* that hold a spike of alpha * exp(-(i - k) / tau)): it is mu when no
\* earlier step holds a spike, and it never exceeds 1.
C23_HawkesIntensity ==
    (spk.pc \in {"loop", "returned"} /\ spk.in.strategy = "hawkes"
        /\ spk.attempts >= 1) =>
        /\ Len(spk.lams) = spk.in.num_frames
        /\ \A i \in 1..Len(spk.lams) :
              /\ spk.lams[i] =
                    Min(One, spk.in.mu + ExcitationSum(spk.last, i,
                                            spk.in.alpha, spk.in.tau))
              /\ spk.lams[i] <= One
              /\ PriorSpikes(spk.last, i) = {} => spk.lams[i] = spk.in.mu

\* a pass in which the clamp acted: two earlier spikes and a sum above 1
C23_Witness ==
    /\ spk.pc = "returned"
    /\ spk.in.strategy = "hawkes"
    /\ \E i \in 1..Len(spk.lams) :
          /\ Cardinality(PriorSpikes(spk.last, i)) >= 2
          /\ spk.in.mu + ExcitationSum(spk.last, i, spk.in.alpha, spk.in.tau)
                > One
          /\ spk.lams[i] = One
    /\ \E i \in 1..Len(spk.lams) : spk.lams[i] < One

\* the generator as it stood when the last pass began
RngBeforePass ==
    [rng EXCEPT !.pos = (rng.pos + MaxFrames * Len(rng.tape)
                            - HawkesDraws(spk.in.num_frames)) % Len(rng.tape)]

\* C24: the running-sum form of the Hawkes excitation gives, at every step
\* and for every spike history, the intensity that the double loop of
\* generate_hawkes_spikes computes, and from the same draws the same train.
C24_RunningSumEquivalent ==
    (spk.pc \in {"loop", "returned"} /\ spk.in.strategy = "hawkes"
        /\ spk.attempts >= 1) =>
        /\ \A s \in [1..spk.in.num_frames -> {0, 1}] :
              \A i \in 0..(spk.in.num_frames - 1) :
                  HawkesIntensity(i, s, spk.in.mu, spk.in.alpha, spk.in.tau)
                    = RunningIntensity(i, s, spk.in.mu, spk.in.alpha,
                                       spk.in.tau)
        /\ spk.last = RunningChain(spk.in.num_frames, spk.in.mu, spk.in.alpha,
                                   spk.in.tau, RngBeforePass)

\* a pass whose last intensity sums two earlier spikes at different lags and
\* stays below the clamp
C24_Witness ==
    /\ spk.pc = "returned"
    /\ spk.in.strategy = "hawkes"
    /\ spk.in.alpha > 0
    /\ \E i \in 1..Len(spk.lams) :
          /\ Cardinality(PriorSpikes(spk.last, i)) >= 2
          /\ spk.in.mu < spk.lams[i]
          /\ spk.lams[i] < One
          /\ spk.lams[i] = RunningIntensity(i - 1, spk.last, spk.in.mu,
                                            spk.in.alpha, spk.in.tau)

ValidSpikeParams ==
    IF spk.in.strategy = "markov"
    THEN MarkovAssert(spk.in.P)
    ELSE /\ 0 < spk.in.mu /\ spk.in.mu < One
         /\ spk.in.alpha > 0
         /\ spk.in.tau > 0

\* C2: for num_frames >= 1 and valid parameters a call of a spike generator
\* terminates (it returns a train or ends with a failure) instead of looping
\* forever.
C2_SpikeGenerationTerminates ==
    (spk.in.num_frames >= 1 /\ ValidSpikeParams)
        => <>(spk.pc \in {"returned", "raised"})

-----------------------------------------------------------------------------
(* Calcium filters *)

\* ar2_coeffs: z1 = exp(-1/tau_decay), z2 = exp(-1/tau_rise)
ar2_coeffs(tau_decay, tau_rise) ==
    LET z1 == ExpNeg(1, tau_decay)
        z2 == ExpNeg(1, tau_rise)
    IN  <<z1 + z2, -FMul(z1, z2)>>

\* the first n elements of C in apply_ar2_filter; c0 is what C[0] is set to
RECURSIVE Ar2Prefix(_, _, _, _)
Ar2Prefix(n, spikes, theta, c0) ==
    IF n = 0 THEN <<>>
    ELSE LET C == Ar2Prefix(n - 1, spikes, theta, c0)
         IN  Append(C,
                IF n = 1 THEN c0
                ELSE IF n = 2 THEN spikes[n] * One + FMul(theta[1], C[n - 1])
                ELSE spikes[n] * One + FMul(theta[1], C[n - 1])
                                     + FMul(theta[2], C[n - 2]))

apply_ar2_filter_first_order(spikes, theta) ==
    Ar2Prefix(Len(spikes), spikes, <<theta[1], 0>>,
              IF spikes = <<>> THEN 0 ELSE spikes[1] * One)
apply_ar2_filter(spikes, theta) ==
    Ar2Prefix(Len(spikes), spikes, theta,
              IF spikes = <<>> THEN 0 ELSE spikes[1] * One)

\* a float that is not a number, and the sum and the product of floats
NaN == -(2^30)
FAdd(a, b) == IF a = NaN \/ b = NaN THEN NaN ELSE a + b
FTimes(a, b) == IF a = NaN \/ b = NaN THEN NaN ELSE a * b

\* kernel = np.exp(-t / tau_decay) - np.exp(-t / tau_rise), t = 0..length-1
\* with a time constant of 0, -t / tau is 0/0 at t = 0 (not a number) and
\* minus infinity after it (exp gives 0)
BiExpKernelShifted(length, tau_decay, tau_rise) ==
    [j \in 1..length |-> ExpNeg(j, tau_decay) - ExpNeg(j, tau_rise)]
BiExpKernelDecayOnly(length, tau_decay, tau_rise) ==
    [j \in 1..length |-> ExpNeg(j - 1, tau_decay)]
BiExpKernel(length, tau_decay, tau_rise) ==
    [j \in 1..length |->
        IF j = 1 /\ (tau_decay = 0 \/ tau_rise = 0) THEN NaN
        ELSE ExpNeg(j - 1, tau_decay) - ExpNeg(j - 1, tau_rise)]

\* np.convolve(a, v, mode='full')[n], n zero-based
RECURSIVE ConvolveAt(_, _, _, _)
ConvolveAt(a, v, n, k) ==
    IF k > n THEN 0
    ELSE FAdd(IF k + 1 <= Len(a) /\ n - k + 1 <= Len(v)
              THEN FTimes(a[k + 1], v[n - k + 1]) ELSE 0,
              ConvolveAt(a, v, n, k + 1))

ConvolveFull(a, v) ==
    [j \in 1..(Len(a) + Len(v) - 1) |-> ConvolveAt(a, v, j - 1, 0)]

\* np.convolve raises ValueError on an empty argument
ConvolveRaises(a, v) == Len(a) = 0 \/ Len(v) = 0

bi_exp_filter_tail(spikes, tau_decay, tau_rise) ==
    LET length == Len(spikes)
        full == ConvolveFull(spikes, BiExpKernel(length, tau_decay, tau_rise))
    IN  SubSeq(full, length, Len(full))
bi_exp_filter(spikes, tau_decay, tau_rise) ==
    LET length == Len(spikes)
        full == ConvolveFull(spikes, BiExpKernel(length, tau_decay, tau_rise))
    IN  SubSeq(full, 1, length)

-----------------------------------------------------------------------------
(* FilterSpec: one filter applied to two spike trains of the same length *)

SpkIdle == [pc |-> "idle"]
RngIdle == [tape |-> <<0>>, pos |-> 0]

Thetas == {-One, -(One \div 8), 0, One \div 2, One + One \div 4}
FilterTaus == {1, 2, 3}
Trains(n) == [1..n -> {0, 1}]

FltInit ==
    /\ rng = RngIdle
    /\ spk = SpkIdle
    /\ shf = ShfIdle
    /\ fpt = FptIdle
    /\ GenIdle
    /\ \E n \in 0..MaxFrames :
        \E a \in Trains(n), b \in Trains(n) :
            \/ \E t1 \in Thetas, t2 \in Thetas :
                  flt = [pc |-> "call", strategy |-> "ar2", spikes |-> a,
                         other |-> b, theta |-> <<t1, t2>>,
                         tau_decay |-> 2, tau_rise |-> 1,
                         trace |-> <<>>, trace_other |-> <<>>]
            \/ \E td \in FilterTaus, tr \in FilterTaus :
                  flt = [pc |-> "call", strategy |-> "biexp", spikes |-> a,
                         other |-> b, theta |-> <<0, 0>>,
                         tau_decay |-> td, tau_rise |-> tr,
                         trace |-> <<>>, trace_other |-> <<>>]

Ar2Apply ==
    /\ flt.pc = "call"
    /\ flt.strategy = "ar2"
    /\ flt' = [flt EXCEPT !.pc = "returned",
                          !.trace = apply_ar2_filter(flt.spikes, flt.theta),
                          !.trace_other = apply_ar2_filter(flt.other, flt.theta)]
    /\ UNCHANGED <<rng, spk, shf, fpt, genVars>>

BiExpApply ==
    /\ flt.pc = "call"
    /\ flt.strategy = "biexp"
    /\ flt' = IF ConvolveRaises(flt.spikes,
                    BiExpKernel(Len(flt.spikes), flt.tau_decay, flt.tau_rise))
              THEN [flt EXCEPT !.pc = "raised"]
              ELSE [flt EXCEPT !.pc = "returned",
                      !.trace = bi_exp_filter(flt.spikes, flt.tau_decay,
                                              flt.tau_rise),
                      !.trace_other = bi_exp_filter(flt.other, flt.tau_decay,
                                                    flt.tau_rise)]
    /\ UNCHANGED <<rng, spk, shf, fpt, genVars>>

FltNext == Ar2Apply \/ BiExpApply

FilterSpec == FltInit /\ [][FltNext]_vars

\* ZeroTrainSpec: one filter applied to an all-zero train of any length of
\* the bounds, with any coefficients and any time constant from 0 up
ZeroTrain(n) == [t \in 1..n |-> 0]
AnyTaus == {0} \cup FilterTaus

ZeroFltInit ==
    /\ rng = RngIdle
    /\ spk = SpkIdle
    /\ shf = ShfIdle
    /\ fpt = FptIdle
    /\ GenIdle
    /\ \E n \in 0..MaxFrames :
            \/ \E t1 \in Thetas, t2 \in Thetas :
                  flt = [pc |-> "call", strategy |-> "ar2",
                         spikes |-> ZeroTrain(n), other |-> ZeroTrain(n),
                         theta |-> <<t1, t2>>,
                         tau_decay |-> 2, tau_rise |-> 1,
                         trace |-> <<>>, trace_other |-> <<>>]
            \/ \E td \in AnyTaus, tr \in AnyTaus :
                  flt = [pc |-> "call", strategy |-> "biexp",
                         spikes |-> ZeroTrain(n), other |-> ZeroTrain(n),
                         theta |-> <<0, 0>>,
                         tau_decay |-> td, tau_rise |-> tr,
                         trace |-> <<>>, trace_other |-> <<>>]

ZeroTrainSpec == ZeroFltInit /\ [][FltNext]_vars

AllZero(s) == \A i \in 1..Len(s) : s[i] = 0

\* C8: either filter, with any coefficients or any time constants, applied
\* to an all-zero spike train of any length returns an all-zero trace of
\* the same length: the call returns, and no element of the trace is other
\* than 0 (not a number included).
C8_ZeroTrainZeroTrace ==
    (flt.pc # "call" /\ AllZero(flt.spikes)) =>
        /\ flt.pc = "returned"
        /\ Len(flt.trace) = Len(flt.spikes)
        /\ AllZero(flt.trace)

\* C9: both filters are causal: two trains that agree on indices 0..n give
\* traces that agree on indices 0..n.
C9_Causal ==
    flt.pc = "returned" =>
        \A n \in 1..Len(flt.spikes) :
            (\A k \in 1..n : flt.spikes[k] = flt.other[k])
                => (\A k \in 1..n : flt.trace[k] = flt.trace_other[k])

\* two trains that agree on a first spike and differ later, whose traces
\* differ after the common prefix
C9_Witness ==
    /\ flt.pc = "returned"
    /\ flt.strategy = "biexp"
    /\ Len(flt.spikes) >= 3
    /\ flt.spikes[1] = 1 /\ flt.other[1] = 1
    /\ flt.spikes[2] # flt.other[2]
    /\ flt.trace[2] = flt.trace_other[2]
    /\ flt.trace[3] # flt.trace_other[3]

\* C25: apply_ar2_filter computes C[0] = spike[0], C[1] = spike[1] +
\* theta1*C[0] and C[n] = spike[n] + theta1*C[n-1] + theta2*C[n-2] for every
\* n >= 2; the trace has the length of the spike train and the call leaves
\* the spike train as it was.
C25_Ar2Recurrence ==
    [][(flt.pc = "call" /\ flt.strategy = "ar2") =>
          LET s == flt.spikes
              C == flt'.trace
              th == flt.theta
          IN  /\ flt'.pc = "returned"
              /\ flt'.spikes = s
              /\ Len(C) = Len(s)
              /\ \A n \in 1..Len(s) :
                    C[n] = s[n] * One
                           + (IF n >= 2 THEN FMul(th[1], C[n - 1]) ELSE 0)
                           + (IF n >= 3 THEN FMul(th[2], C[n - 2]) ELSE 0)]_vars

\* a train of three frames that starts with a spike, filtered with two
\* nonzero coefficients: the third value carries the second-order term
C25_Witness ==
    /\ flt.pc = "returned"
    /\ flt.strategy = "ar2"
    /\ Len(flt.spikes) >= 3
    /\ flt.spikes[1] = 1
    /\ flt.theta[1] # 0
    /\ FMul(flt.theta[2], flt.trace[1]) # 0
    /\ flt.trace[3] = flt.spikes[3] * One + FMul(flt.theta[1], flt.trace[2])
                        + FMul(flt.theta[2], flt.trace[1])

\* exp(-d/tau_decay) - exp(-d/tau_rise), the kernel at lag d
KernelAt(d, tau_decay, tau_rise) ==
    ExpNeg(d, tau_decay) - ExpNeg(d, tau_rise)

\* the sum over k = 0..n (from 0) of spike[k] * kernel(n - k)
CausalSum(s, n, tau_decay, tau_rise) ==
    LET acc[k \in 0..(n + 1)] ==
            IF k = 0 THEN 0
            ELSE acc[k - 1] + s[k] * KernelAt(n + 1 - k, tau_decay, tau_rise)
    IN  acc[n + 1]

\* C26: for a spike train of length N bi_exp_filter returns the
\* leading-truncated linear convolution with the kernel sampled at lags
\* 0..N-1: trace[n] is the sum over k = 0..n of spike[k] * kernel(n - k) for
\* every n in 0..N-1, and the trace has length exactly N.
C26_BiExpCausalConvolution ==
    [][(flt.pc = "call" /\ flt.strategy = "biexp" /\ Len(flt.spikes) >= 1) =>
          /\ flt'.pc = "returned"
          /\ Len(flt'.trace) = Len(flt.spikes)
          /\ \A n \in 0..(Len(flt.spikes) - 1) :
                flt'.trace[n + 1] = CausalSum(flt.spikes, n, flt.tau_decay,
                                             flt.tau_rise)]_vars

\* two spikes at different lags add up in the third value of the trace
C26_Witness ==
    /\ flt.pc = "returned"
    /\ flt.strategy = "biexp"
    /\ Len(flt.spikes) >= 3
    /\ flt.spikes[1] = 1 /\ flt.spikes[2] = 1
    /\ KernelAt(1, flt.tau_decay, flt.tau_rise) > 0
    /\ KernelAt(2, flt.tau_decay, flt.tau_rise) > 0
    /\ flt.trace[3] = KernelAt(2, flt.tau_decay, flt.tau_rise)
                        + KernelAt(1, flt.tau_decay, flt.tau_rise)

\* the train has its only spike in its last frame
OnlyLastSpike(s) ==
    /\ Len(s) >= 1
    /\ \A k \in 1..Len(s) : s[k] = (IF k = Len(s) THEN 1 ELSE 0)

\* C30: in the bi-exponential strategy the kernel is 0 at lag 0, so a spike
\* at frame n adds nothing to trace[n]: trace[0] is 0 for every train and a
\* train whose only spike is in the last frame gives an all-zero trace; in
\* the AR(2) strategy a spike at frame n adds exactly 1 to trace[n].
C30_SpikeAtLagZero ==
    flt.pc = "returned" =>
        /\ \A n \in 1..Len(flt.spikes) :
              ((\A k \in 1..(n - 1) : flt.spikes[k] = flt.other[k])
                    /\ flt.spikes[n] = 1 /\ flt.other[n] = 0)
                => flt.trace[n] = flt.trace_other[n]
                      + (IF flt.strategy = "biexp" THEN 0 ELSE One)
        /\ flt.strategy = "biexp" =>
              /\ flt.trace[1] = 0
              /\ OnlyLastSpike(flt.spikes) => AllZero(flt.trace)

\* a train with its only spike in the last of three frames gave an all-zero
\* trace, while the same filter answers an earlier spike
C30_Witness ==
    /\ flt.pc = "returned"
    /\ flt.strategy = "biexp"
    /\ Len(flt.spikes) = 3
    /\ OnlyLastSpike(flt.spikes)
    /\ AllZero(flt.trace)
    /\ flt.other = <<1, 0, 1>>
    /\ flt.trace_other[2] > 0
    /\ flt.trace_other[3] > 0

-----------------------------------------------------------------------------
(* Frame translation *)

\* A frame is a function [0..h-1 -> [0..w-1 -> value]].
FrameH(frame2d) == Cardinality(DOMAIN frame2d)
FrameW(frame2d) == Cardinality(DOMAIN frame2d[0])

\* a Python slice bound a on an axis of length n
SliceIdx(a, n) == IF a < 0 THEN Max(a + n, 0) ELSE Min(a, n)
SliceLen(a, b, n) == Max(0, SliceIdx(b, n) - SliceIdx(a, n))

\* the slice bounds shift_frame computes
ShiftBounds(h, w, dy, dx) ==
    LET y_start == Max(0, dy)
        y_end   == Min(h, h + dy)
        x_start == Max(0, dx)
        x_end   == Min(w, w + dx)
        src_y_start == Max(0, -dy)
        src_x_start == Max(0, -dx)
    IN  [y_start |-> y_start, y_end |-> y_end,
         x_start |-> x_start, x_end |-> x_end,
         src_y_start |-> src_y_start,
         src_y_end |-> src_y_start + (y_end - y_start),
         src_x_start |-> src_x_start,
         src_x_end |-> src_x_start + (x_end - x_start)]

\* numpy's rule for `dest[...] = src[...]`: each source extent equals the
\* destination's or is 1; anything else raises ValueError
Broadcasts(src_n, dst_n) == src_n = dst_n \/ src_n = 1

ShiftRaises(h, w, dy, dx) ==
    LET b == ShiftBounds(h, w, dy, dx)
    IN  ~ /\ Broadcasts(SliceLen(b.src_y_start, b.src_y_end, h),
                        SliceLen(b.y_start, b.y_end, h))
          /\ Broadcasts(SliceLen(b.src_x_start, b.src_x_end, w),
                        SliceLen(b.x_start, b.x_end, w))

\* a translation that wraps around, as np.roll does
shift_frame_roll(frame2d, shift, fill) ==
    LET h == FrameH(frame2d)
        w == FrameW(frame2d)
    IN  [y \in 0..(h - 1) |-> [x \in 0..(w - 1) |->
            frame2d[(y - shift[1]) % h][(x - shift[2]) % w]]]

\* shift_frame(frame2d, shift, fill) when the assignment does not raise
shift_frame(frame2d, shift, fill) ==
    LET h == FrameH(frame2d)
        w == FrameW(frame2d)
        b == ShiftBounds(h, w, shift[1], shift[2])
        dy0 == SliceIdx(b.y_start, h)
        dx0 == SliceIdx(b.x_start, w)
        dn == SliceLen(b.y_start, b.y_end, h)
        dm == SliceLen(b.x_start, b.x_end, w)
        sy0 == SliceIdx(b.src_y_start, h)
        sx0 == SliceIdx(b.src_x_start, w)
        sn == SliceLen(b.src_y_start, b.src_y_end, h)
        sm == SliceLen(b.src_x_start, b.src_x_end, w)
    IN  [y \in 0..(h - 1) |-> [x \in 0..(w - 1) |->
            IF /\ dy0 <= y /\ y < dy0 + dn
               /\ dx0 <= x /\ x < dx0 + dm
            THEN frame2d[sy0 + (IF sn = 1 THEN 0 ELSE y - dy0)]
                        [sx0 + (IF sm = 1 THEN 0 ELSE x - dx0)]
            ELSE fill]]

-----------------------------------------------------------------------------
(* ShiftSpec: one call of shift_frame *)

UniformFrame(h, w, v) == [y \in 0..(h - 1) |-> [x \in 0..(w - 1) |-> v]]
\* every pixel holds a value of its own
CodedFrame(h, w) == [y \in 0..(h - 1) |-> [x \in 0..(w - 1) |-> 10 + y * w + x]]

ShiftRange == (-2 * MaxSide)..(2 * MaxSide)

ShfInit ==
    /\ rng = RngIdle
    /\ spk = SpkIdle
    /\ flt = FltIdle
    /\ fpt = FptIdle
    /\ GenIdle
    /\ \E h \in 1..MaxSide, w \in 1..MaxSide, dy \in ShiftRange,
          dx \in ShiftRange, fill \in {0, 3}, uniform \in BOOLEAN :
          shf = [pc |-> "call", uniform |-> uniform,
                 frame2d |-> IF uniform THEN UniformFrame(h, w, 7)
                             ELSE CodedFrame(h, w),
                 shift |-> <<dy, dx>>, fill |-> fill, shifted |-> <<>>]

ShiftReturn ==
    /\ shf.pc = "call"
    /\ ~ShiftRaises(FrameH(shf.frame2d), FrameW(shf.frame2d),
                    shf.shift[1], shf.shift[2])
    /\ shf' = [shf EXCEPT !.pc = "returned",
                  !.shifted = shift_frame(shf.frame2d, shf.shift, shf.fill)]
    /\ UNCHANGED <<rng, spk, flt, fpt, genVars>>

ShiftRaise ==
    /\ shf.pc = "call"
    /\ ShiftRaises(FrameH(shf.frame2d), FrameW(shf.frame2d),
                   shf.shift[1], shf.shift[2])
    /\ shf' = [shf EXCEPT !.pc = "raised"]
    /\ UNCHANGED <<rng, spk, flt, fpt, genVars>>

ShfNext == ShiftReturn \/ ShiftRaise

ShiftSpec == ShfInit /\ [][ShfNext]_vars

\* the pixel (y, x) of the result has no source pixel: content moved away
Exposed(h, w, dy, dx, y, x) ==
    ~ (0 <= y - dy /\ y - dy < h /\ 0 <= x - dx /\ x - dx < w)

\* C6: translating a uniform frame of value v by any nonzero (dy, dx) yields
\* a frame of the same shape whose exposed border (|dy| rows, |dx| columns)
\* holds the fill value and whose other pixels still hold v.
C6_UniformShift ==
    (shf.pc \in {"returned", "raised"} /\ shf.uniform
        /\ shf.shift # <<0, 0>>) =>
        /\ shf.pc = "returned"
        /\ DOMAIN shf.shifted = DOMAIN shf.frame2d
        /\ \A y \in DOMAIN shf.frame2d :
              /\ DOMAIN shf.shifted[y] = DOMAIN shf.frame2d[y]
              /\ \A x \in DOMAIN shf.frame2d[y] :
                    shf.shifted[y][x] =
                        IF Exposed(FrameH(shf.frame2d), FrameW(shf.frame2d),
                                   shf.shift[1], shf.shift[2], y, x)
                        THEN shf.fill ELSE shf.frame2d[y][x]

\* C20: for every frame and every shift (dy, dx) with |dy| <= height and
\* |dx| <= width the call returns, and the pixel (y, x) of the translated
\* frame is the source pixel (y - dy, x - dx) where that lies inside the
\* frame and the fill value elsewhere: nothing wraps around, and the exposed
\* region holds 0 only if the fill value is 0.
C20_ShiftWithinFrame ==
    LET h == FrameH(shf.frame2d)
        w == FrameW(shf.frame2d)
        dy == shf.shift[1]
        dx == shf.shift[2]
    IN  (shf.pc \in {"returned", "raised"}
            /\ Abs(dy) <= h /\ Abs(dx) <= w) =>
            /\ shf.pc = "returned"
            /\ DOMAIN shf.shifted = 0..(h - 1)
            /\ \A y \in 0..(h - 1) :
                  /\ DOMAIN shf.shifted[y] = 0..(w - 1)
                  /\ \A x \in 0..(w - 1) :
                        shf.shifted[y][x] =
                            IF Exposed(h, w, dy, dx, y, x) THEN shf.fill
                            ELSE shf.frame2d[y - dy][x - dx]

\* a frame whose pixels all differ, moved along both axes by less than its
\* size, with a fill value that is not 0: some pixels are copied and some
\* are exposed
C20_Witness ==
    /\ shf.pc = "returned"
    /\ ~shf.uniform
    /\ shf.fill # 0
    /\ shf.shift[1] # 0 /\ shf.shift[2] # 0
    /\ Abs(shf.shift[1]) < FrameH(shf.frame2d)
    /\ Abs(shf.shift[2]) < FrameW(shf.frame2d)
    /\ \E y \in DOMAIN shf.shifted : \E x \in DOMAIN shf.shifted[y] :
          shf.shifted[y][x] = shf.fill

-----------------------------------------------------------------------------
(* Draws of other distributions *)

\* rng.integers(low, high) raises ValueError when high <= low
IntegersRaises(low, high) == high <= low
RngIntegersInclusive(low, high, u) ==
    low + (u * (high - low + 1)) \div UniformLevels
RngIntegers(low, high, u) == low + (u * (high - low)) \div UniformLevels

\* rng.uniform(low, high)
RngUniform(low, high, u) == low + FMul(high - low, Uniform(u))

\* the standard normal deviate of draw u, in whole standard deviations
StdNormal(u) == 2 * u - (UniformLevels - 1)

\* rng.normal(0, scale)
RngNormalUnscaled(scale, u) == One * StdNormal(u)
RngNormal(scale, u) == scale * StdNormal(u)

\* np.round of a value held in units of 1/unit: to the nearest integer, a
\* tie to the even one
RoundHalfEvenOf(v, unit) ==
    LET f == v \div unit
        r == v - f * unit
    IN  IF 2 * r < unit THEN f
        ELSE IF 2 * r > unit THEN f + 1
        ELSE IF f % 2 = 0 THEN f ELSE f + 1

RoundHalfEven(v) == RoundHalfEvenOf(v, One)

-----------------------------------------------------------------------------
(* Motion *)

\* scipy's mode='reflect' index into a line of n values: the line is
\* mirrored about its two edges (d c b a | a b c d | d c b a), period 2n
Reflect(k, n) ==
    LET m == k % (2 * n)
    IN  IF m < n THEN m ELSE 2 * n - 1 - m

\* smoothed values are held in units of 1/Fine, fine enough for the rounding
\* of random_motion to fall as it does on the floats
Fine == One * 2^10
KernelSum == 2^20

\* the kernel of gaussian_filter1d: exp(-x^2 / (2 sigma^2)) at x = -r..r with
\* r = int(4 * sigma + 0.5), divided by its sum; in units of 1/KernelSum
SmoothWeights(sigma) ==
    IF sigma = 1
    THEN <<140, 4647, 56614, 253725, 418324, 253725, 56614, 4647, 140>>
    ELSE <<70, 458, 2324, 9190, 28307, 67906, 126865, 184587, 209162,
           184587, 126865, 67906, 28307, 9190, 2324, 458, 70>>

\* the weighted sum of the line around t, j running over the kernel
RECURSIVE SmoothSum(_, _, _, _, _)
SmoothSum(x, n, w, t, j) ==
    IF j > Len(w) THEN 0
    ELSE w[j] * x[Reflect(t + j - 1 - (Len(w) - 1) \div 2, n)]
         + SmoothSum(x, n, w, t, j + 1)

\* gaussian_filter1d(x, sigma) of a line x of n values in units of 1/One;
\* the result is in units of 1/Fine
gaussian_filter1d(x, n, sigma) ==
    LET w == SmoothWeights(sigma)
        half == (KernelSum \div (Fine \div One)) \div 2
    IN  [t \in 0..(n - 1) |->
            (SmoothSum(x, n, w, t, 1) + half)
                \div (KernelSum \div (Fine \div One))]

\* random_motion(num_frames, max_shift, smoothing): 2 * num_frames draws
random_motion(num_frames, max_shift, smoothing, r) ==
    LET scale == (max_shift * One) \div 3
        raw(dim) == [t \in 0..(num_frames - 1) |->
                        RngNormal(scale, RngPeek(r, 2 * t + dim))]
        sm(dim) == gaussian_filter1d(raw(dim), num_frames, smoothing)
    IN  [t \in 0..(num_frames - 1) |->
            <<RoundHalfEvenOf(sm(0)[t], Fine), RoundHalfEvenOf(sm(1)[t], Fine)>>]

-----------------------------------------------------------------------------
(* Footprints *)

\* the units: a footprint after normalization in 1/MaskOne, the pixels of
\* the movie in 1/MovieOne, exponents in 1/QOne, exp(-q) in 1/ExpOne and the
\* density in 1/PdfOne
MaskOne == 2^20
MovieOne == 2^21
QOne == 2^24
ExpOne == 2^24
PdfOne == 2^30

\* floor(a * 2^k / c) by long division, for 0 <= a and 0 < c < 2^30
RECURSIVE MulDiv2(_, _, _)
MulDiv2(a, k, c) ==
    IF k = 0 THEN a \div c
    ELSE (a \div c) * 2^k + MulDiv2(2 * (a % c), k - 1, c)

\* floor(a * b / 2^24) for 0 <= a <= 2^24 and 0 <= b < 2^28, by halves of
\* twelve bits
MulShift(a, b) ==
    LET h == 2^12
        a1 == a \div h
        a0 == a % h
        b1 == b \div h
        b0 == b % h
    IN  a1 * b1 + (a1 * b0 + a0 * b1 + (a0 * b0) \div h) \div h

\* a / b to the nearest 1/MaskOne
FDiv(a, b) == (MulDiv2(a, 21, b) + 1) \div 2

\* exp(-n) for n = 0..16, to the nearest 1/ExpOne
ExpInt ==
    <<16777216, 6171993, 2270549, 835288, 307285, 113044, 41587, 15299,
      5628, 2070, 762, 280, 103, 38, 14, 5, 2>>

\* 1 - y/k (1 - y/(k+1) (... (1 - y/12))): the series of exp(-y), y < 1
RECURSIVE ExpSeries(_, _)
ExpSeries(y, k) ==
    IF k > 12 THEN ExpOne
    ELSE ExpOne - MulShift(y, ExpSeries(y, k + 1)) \div k

\* exp(-q) for q >= 0 in units of 1/QOne, as exp(-n) exp(-f) for the whole
\* part n and the fraction f of q; from q = 17 on the value is below the
\* resolution (the float is 0.0 only from q = 746)
ExpFine(q) ==
    IF q >= 17 * QOne THEN 0
    ELSE MulShift(ExpInt[(q \div QOne) + 1], ExpSeries(q % QOne, 1))

\* d^2 / (2 sigma^2), capped at 32 (where exp is below the resolution)
Quad(d, sigma) ==
    IF d * d * ((One * One) \div 2) >= 32 * sigma * sigma THEN 32 * QOne
    ELSE MulDiv2(d * d * ((One * One) \div 2), 24, sigma * sigma)

\* 1 / (2 pi sigma_y sigma_x), with 710/113 for 2 pi
NormFactor(sigma_y, sigma_x) ==
    MulDiv2(((2^24 * 113) \div 710) * One, 12, sigma_y * sigma_x)

\* rv.pdf over the grid
GaussianPdf(height, width, center, sigma_y, sigma_x) ==
    [y \in 0..(height - 1) |-> [x \in 0..(width - 1) |->
        MulShift(ExpFine(Quad(y - center[1], sigma_y)
                         + Quad(x - center[2], sigma_x)),
                 NormFactor(sigma_y, sigma_x))]]

FrameValues(f) == {f[y][x] : y \in DOMAIN f, x \in DOMAIN f[0]}
SetMax(S) == CHOOSE v \in S : \A u \in S : u <= v
SetMin(S) == CHOOSE v \in S : \A u \in S : v <= u

\* a / (m + 1e-12) for 0 <= a <= m, to the nearest 1/MaskOne: 1e-12 is far
\* below the resolution, so the value is that of a / m, and for m = 0 (then
\* a = 0 too) it is 0 / 1e-12
DivEps(a, m) == IF m = 0 THEN 0 ELSE FDiv(a, m)

\* what normalization adds to the range to form its divisor: the 1e-12 of
\* SimCaD.py, held as a sign because it is below every resolution, and
\* nothing in SimCaD_Hawkes.py.  With it the largest entry, range / (range +
\* 1e-12), stays below 1 (by about 1e-10 for the sigmas of the pipeline).
MarkovEps == 1
HawkesEps == 0

\* generate_gaussian_footprint(..., normalize=True) of SimCaD.py
MarkovFootprint(height, width, center, sigma_y, sigma_x) ==
    LET pdf == GaussianPdf(height, width, center, sigma_y, sigma_x)
        mn == SetMin(FrameValues(pdf))
        mx == SetMax(FrameValues(pdf)) - mn
    IN  [y \in DOMAIN pdf |-> [x \in DOMAIN pdf[y] |->
            DivEps(pdf[y][x] - mn, mx)]]

\* generate_gaussian_footprint(..., normalize=True) of SimCaD_Hawkes.py
HawkesFootprint(height, width, center, sigma_y, sigma_x) ==
    LET pdf == GaussianPdf(height, width, center, sigma_y, sigma_x)
        mn == SetMin(FrameValues(pdf))
        mx == SetMax(FrameValues(pdf))
    IN  [y \in DOMAIN pdf |-> [x \in DOMAIN pdf[y] |->
            IF mx > mn THEN FDiv(pdf[y][x] - mn, mx - mn)
            ELSE pdf[y][x] - mn]]

\* whether normalization executes its division: SimCaD.py always divides, by
\* footprint.max() + 1e-12; SimCaD_Hawkes.py divides under `if mx > mn`
MarkovDivides(pdf) == TRUE
HawkesDivides(pdf) == SetMax(FrameValues(pdf)) > SetMin(FrameValues(pdf))

\* FootprintSpec: one call of generate_gaussian_footprint, of either file,
\* with a centre on or off the grid.  The grids have two rows and two columns
\* at least, as every frame of the generator has: rv.pdf squeezes an axis of
\* length 1 away.  Without normalization the footprint is the density, in
\* units of 1/PdfOne; with it, it is in units of 1/MaskOne.
FootprintSigmas == {2 * One, 3 * One, 4 * One}

\* a centre so far from the grid that the density is 0.0 on all of it
FarCenter == 200

FptInit ==
    /\ rng = RngIdle
    /\ spk = SpkIdle
    /\ flt = FltIdle
    /\ shf = ShfIdle
    /\ GenIdle
    /\ \E variant \in {"markov", "hawkes"}, h \in 2..MaxSide, w \in 2..MaxSide,
          cy \in (-1..MaxSide) \cup {FarCenter},
          cx \in (-1..MaxSide) \cup {FarCenter},
          sy \in FootprintSigmas, sx \in FootprintSigmas,
          normalize \in BOOLEAN :
          fpt = [pc |-> "call", variant |-> variant, height |-> h,
                 width |-> w, center |-> <<cy, cx>>, sigma_y |-> sy,
                 sigma_x |-> sx, normalize |-> normalize, pdf |-> <<>>,
                 footprint |-> <<>>, divided |-> FALSE, eps |-> 0]

GaussianFootprint ==
    /\ fpt.pc = "call"
    /\ LET pdf == GaussianPdf(fpt.height, fpt.width, fpt.center,
                              fpt.sigma_y, fpt.sigma_x)
       IN  fpt' = [fpt EXCEPT
                !.pc = "returned",
                !.pdf = pdf,
                !.eps = IF ~fpt.normalize THEN 0
                        ELSE IF fpt.variant = "markov" THEN MarkovEps
                        ELSE HawkesEps,
                !.divided = /\ fpt.normalize
                            /\ IF fpt.variant = "markov"
                               THEN MarkovDivides(pdf) ELSE HawkesDivides(pdf),
                !.footprint =
                    IF ~fpt.normalize THEN pdf
                    ELSE IF fpt.variant = "markov"
                    THEN MarkovFootprint(fpt.height, fpt.width, fpt.center,
                                         fpt.sigma_y, fpt.sigma_x)
                    ELSE HawkesFootprint(fpt.height, fpt.width, fpt.center,
                                         fpt.sigma_y, fpt.sigma_x)]
    /\ UNCHANGED <<rng, spk, flt, shf, genVars>>

FptNext == GaussianFootprint

FootprintSpec == FptInit /\ [][FptNext]_vars

NonConstant(f) == Cardinality(FrameValues(f)) > 1

\* C11: a footprint returned with normalization on, of a density that is
\* not constant over the grid, has minimum exactly 0 and maximum exactly 1,
\* for every centre and sigma pair, in both files (the maximum is range /
\* (range + eps): exactly 1 only if nothing was added to the range)
C11_FootprintMinMax ==
    (fpt.pc = "returned" /\ fpt.normalize /\ NonConstant(fpt.pdf))
        => /\ SetMin(FrameValues(fpt.footprint)) = 0
           /\ SetMax(FrameValues(fpt.footprint)) = MaskOne
           /\ fpt.eps = 0

\* C27: when the density has its maximum equal to its minimum,
\* normalization skips the division and leaves the min-subtracted values,
\* an all-zero footprint; it never divides by a zero or near-zero
\* denominator and the call completes, in both files.
C27_DegenerateSkipsDivision ==
    (fpt.pc = "returned" /\ fpt.normalize /\ ~NonConstant(fpt.pdf))
        => /\ ~fpt.divided
           /\ FrameValues(fpt.footprint) = {0}

Pad == 5
SigmaLow == 3
MarkovSigmaHigh == 4
HawkesSigmaHigh == 5

\* (center_y, center_x) of one cell: the first two draws of the loop body
CellCenter(c, r) ==
    <<RngIntegers(Pad, c.height - Pad, RngPeek(r, 0)),
      RngIntegers(Pad, c.width - Pad, RngPeek(r, 1))>>

\* (sy, sx) of one cell: the third and fourth draw of the loop body
CellSigmas(c, r) ==
    LET hi == IF c.variant = "markov" THEN MarkovSigmaHigh ELSE HawkesSigmaHigh
    IN  <<RngUniform(SigmaLow * One, hi * One, RngPeek(r, 2)),
          RngUniform(SigmaLow * One, hi * One, RngPeek(r, 3))>>

\* the body of the footprint loop for one cell: four draws; the footprint is
\* stored in the float32 cell_masks, where the 1e-12 of SimCaD.py is lost
CellFootprint(c, r) ==
    LET center == CellCenter(c, r)
        sigmas == CellSigmas(c, r)
    IN  IF c.variant = "markov"
        THEN MarkovFootprint(c.height, c.width, center, sigmas[1], sigmas[2])
        ELSE HawkesFootprint(c.height, c.width, center, sigmas[1], sigmas[2])

-----------------------------------------------------------------------------
(* Compositing *)

\* a value in units of 1/One, in the units of the movie
InMovieUnits(v) == v * (MovieOne \div One)

\* a * b / 2^k to the nearest integer, for 0 <= a and 0 <= b * 2^k < 2^31
MulRound(a, b, k) ==
    b * (a \div 2^k) + (b * (a % 2^k) + 2^(k - 1)) \div 2^k

\* cell_traces[i, t] * cell_masks[i]             (SimCaD.py line 235)
\* cell_traces[i, t] * cell_masks[i] * cell_snr  (SimCaD_Hawkes.py line 269)
\* the trace and cell_snr in 1/One, the mask in 1/MaskOne, the product to
\* the nearest 1/MovieOne
CellContributionUnscaled(variant, trace_t, mask_px, cell_snr) ==
    MulRound(trace_t * mask_px, 1, 5)
CellContribution(variant, trace_t, mask_px, cell_snr) ==
    IF variant = "markov" THEN MulRound(trace_t * mask_px, 1, 5)
    ELSE MulRound(trace_t * mask_px, cell_snr, 11)

RECURSIVE CellSum(_, _, _, _, _, _, _)
CellSum(c, k, traces, masks, t, y, x) ==
    IF k >= c.num_cells THEN 0
    ELSE CellContribution(c.variant, traces[k][t + 1], masks[k][y][x], c.cell_snr)
         + CellSum(c, k + 1, traces, masks, t, y, x)

\* the body of the loop of step 3 for cell i:
\* for t in range(num_frames): movie[t] += contribution of cell i
Accumulate(c, mv, i, traces, masks) ==
    [t \in DOMAIN mv |-> [y \in DOMAIN mv[t] |-> [x \in DOMAIN mv[t][y] |->
        mv[t][y][x] + CellContribution(c.variant, traces[i][t + 1],
                                       masks[i][y][x], c.cell_snr)]]]

\* steps 3 and 4: the raw movie
RawMovie(c, traces, masks) ==
    [t \in 0..(c.num_frames - 1) |-> [y \in 0..(c.height - 1) |->
        [x \in 0..(c.width - 1) |->
            CellSum(c, 0, traces, masks, t, y, x)
                + InMovieUnits(c.background_strength)]]]

ClipFirst(v) == (Min(Max(v, 0), 255 * MovieOne) \div MovieOne) * MovieOne

\* step 6: noise = rng.normal(0, noise_sigma, size=moved_movie.shape)
NoiseField(c, r) ==
    [t \in 0..(c.num_frames - 1) |-> [y \in 0..(c.height - 1) |->
        [x \in 0..(c.width - 1) |->
            InMovieUnits(RngNormal(c.noise_sigma,
                RngPeek(r, (t * c.height + y) * c.width + x)))]]]

\* the noise added to frames that were clipped and quantized first
AddMoviesAfterClip(a, b) ==
    [t \in DOMAIN a |-> [y \in DOMAIN a[t] |-> [x \in DOMAIN a[t][y] |->
        ClipFirst(a[t][y][x]) + b[t][y][x]]]]
AddMovies(a, b) ==
    [t \in DOMAIN a |-> [y \in DOMAIN a[t] |-> [x \in DOMAIN a[t][y] |->
        a[t][y][x] + b[t][y][x]]]]

\* step 7: np.clip(v, 0, 255).astype(np.uint8)
TruncateOnly(v) == v \div MovieOne
ClipQuantize(v) == Min(Max(v, 0), 255 * MovieOne) \div MovieOne

\* return moved_movie, cell_masks, cell_traces, spikes_all, motion_shifts
ReturnTupleUnrelated(mv, masks, traces, spikes, shifts) ==
    [movie |-> mv, cell_masks |-> masks, cell_traces |-> spikes,
     spikes_all |-> spikes,
     motion_shifts |-> [t \in DOMAIN shifts |-> <<0, 0>>]]
ReturnTuple(mv, masks, traces, spikes, shifts) ==
    [movie |-> mv, cell_masks |-> masks, cell_traces |-> traces,
     spikes_all |-> spikes, motion_shifts |-> shifts]

ZeroMovie(n, h, w) ==
    [t \in 0..(n - 1) |-> [y \in 0..(h - 1) |-> [x \in 0..(w - 1) |-> 0]]]

\* an exception leaves generate_synthetic_calcium_movie through no return
\* statement: the caller gets none of the arrays built so far
ResultOnRaiseKeepsLocals(partial) == partial
ResultOnRaise(partial) == NoResult

Partial ==
    [movie |-> moved_movie, cell_masks |-> cell_masks,
     cell_traces |-> cell_traces, spikes_all |-> spikes_all,
     motion_shifts |-> motion_shifts]

-----------------------------------------------------------------------------
(* Spec: a process that calls generate_synthetic_calcium_movie *)

HalfHalf == <<<<One \div 2, One \div 2>>, <<One \div 2, One \div 2>>>>
NotStochastic == <<<<One \div 2, One \div 4>>, <<One \div 2, One \div 2>>>>
NeverSpikes == <<<<One, 0>>, <<0, One>>>>
OneRow == <<<<One \div 2, One \div 2>>>>

\* spike_transition_matrix=None, the default of the parameter
NoMatrix == <<>>

\* [[0.98, 0.02], [0.02, 0.98]], the 0.02 to the nearest 1/One
DefaultMatrix ==
    LET p == (2 * One + 50) \div 100
    IN  <<<<One - p, p>>, <<p, One - p>>>>

\* lines 185-190 of SimCaD.py: `if spike_transition_matrix is None` rebinds
\* the parameter to the default matrix; SimCaD_Hawkes.py has no such
\* parameter
ResolveMatrix(c) ==
    IF c.variant = "markov" /\ c.spike_transition_matrix = NoMatrix
    THEN [c EXCEPT !.spike_transition_matrix = DefaultMatrix]
    ELSE c

BaseConfig(variant, cells, frames) ==
    [variant |-> variant, num_cells |-> cells, num_frames |-> frames,
     height |-> 11, width |-> 11,
     spike_transition_matrix |-> HalfHalf,
     hawkes_mu |-> One \div 4, hawkes_alpha |-> One \div 2, hawkes_tau |-> 2,
     tau_decay |-> 2, tau_rise |-> 1, use_ar2 |-> TRUE,
     cell_snr |-> 5 * One, background_strength |-> 0,
     motion_smoothing |-> 1, max_shift |-> 0, noise_sigma |-> 0]

\* the base configuration and the ones that differ from it in one respect
Variations(b) ==
    {b,
     [b EXCEPT !.noise_sigma = 100 * One],
     [b EXCEPT !.background_strength = One \div 4],
     [b EXCEPT !.max_shift = 6],
     [b EXCEPT !.max_shift = 6, !.motion_smoothing = 2,
               !.noise_sigma = 100 * One, !.background_strength = One \div 4],
     [b EXCEPT !.max_shift = 15],
     [b EXCEPT !.height = 10],
     [b EXCEPT !.width = 10],
     [b EXCEPT !.height = 13, !.width = 12],
     [b EXCEPT !.spike_transition_matrix = NotStochastic],
     [b EXCEPT !.spike_transition_matrix = OneRow],
     [b EXCEPT !.spike_transition_matrix = NoMatrix],
     [b EXCEPT !.hawkes_mu = One],
     [b EXCEPT !.spike_transition_matrix = NeverSpikes,
               !.hawkes_mu = 0, !.hawkes_alpha = 0],
     [b EXCEPT !.tau_decay = 0],
     [b EXCEPT !.use_ar2 = FALSE],
     [b EXCEPT !.cell_snr = One]}

\* num_frames = 0 is left out: what the call does with it is decided by
\* scipy's gaussian_filter1d on an empty array
GenConfigs ==
    UNION {Variations(BaseConfig(v, n, f)) :
            v \in {"markov", "hawkes"}, n \in -1..MaxCells,
            f \in {-1} \cup 1..MaxMovieFrames}

GenSeeds == {<<0, 3, 1, 2, 3, 0, 1>>, <<2, 1, 3, 0, 0, 3, 2>>}

Init ==
    /\ spk = SpkIdle /\ flt = FltIdle /\ shf = ShfIdle /\ fpt = FptIdle
    /\ rng \in {[tape |-> t, pos |-> 0] : t \in GenSeeds}
    /\ cfg \in GenConfigs
    /\ pc = "call" /\ calls = 1
    /\ first = NoResult /\ result = NoResult /\ error = ""
    /\ cell_i = 0 /\ motion_shifts = <<>> /\ cell_masks = <<>>
    /\ cell_traces = <<>> /\ spikes_all = <<>>
    /\ movie = <<>> /\ moved_movie = <<>> /\ noise = <<>>

subVars == <<spk, flt, shf, fpt>>

Raise(e) ==
    /\ pc' = "raised"
    /\ error' = e
    /\ result' = ResultOnRaise(Partial)

\* lines 185-199: the default matrix takes the place of None, the arrays are
\* allocated and the motion is drawn
\* np.zeros raises ValueError on a negative dimension; with num_cells = 0 the
\* three loops over the cells have no iteration
Allocate ==
    /\ pc = "call"
    /\ IF cfg.num_frames < 0
       THEN /\ Raise("ValueError")
            /\ UNCHANGED <<rng, movie, cell_masks, cell_traces, spikes_all,
                           motion_shifts, cell_i>>
       ELSE IF cfg.num_cells < 0
       THEN /\ movie' = ZeroMovie(cfg.num_frames, cfg.height, cfg.width)
            /\ Raise("ValueError")
            /\ UNCHANGED <<rng, cell_masks, cell_traces, spikes_all,
                           motion_shifts, cell_i>>
       ELSE /\ movie' = ZeroMovie(cfg.num_frames, cfg.height, cfg.width)
            /\ cell_masks' = ZeroMovie(cfg.num_cells, cfg.height, cfg.width)
            /\ cell_traces' = [k \in 0..(cfg.num_cells - 1) |->
                                  [t \in 1..cfg.num_frames |-> 0]]
            /\ spikes_all' = [k \in 0..(cfg.num_cells - 1) |->
                                  [t \in 1..cfg.num_frames |-> 0]]
            /\ motion_shifts' = random_motion(cfg.num_frames, cfg.max_shift,
                                              cfg.motion_smoothing, rng)
            /\ rng' = RngAdvance(rng, 2 * cfg.num_frames)
            /\ cell_i' = 0
            /\ pc' = IF cfg.num_cells > 0 THEN "footprints" ELSE "background"
            /\ UNCHANGED <<result, error>>
    /\ cfg' = ResolveMatrix(cfg)
    /\ UNCHANGED <<calls, first, moved_movie, noise, subVars>>

\* lines 202-212: the footprint of cell i
Footprint ==
    /\ pc = "footprints"
    /\ cell_i < cfg.num_cells
    /\ IF IntegersRaises(Pad, cfg.height - Pad)
       THEN /\ Raise("ValueError")
            /\ UNCHANGED <<rng, cell_masks, cell_i>>
       ELSE IF IntegersRaises(Pad, cfg.width - Pad)
       THEN /\ Raise("ValueError")
            /\ rng' = RngAdvance(rng, 1)
            /\ UNCHANGED <<cell_masks, cell_i>>
       ELSE /\ cell_masks' = [cell_masks EXCEPT ![cell_i] = CellFootprint(cfg, rng)]
            /\ rng' = RngAdvance(rng, 4)
            /\ cell_i' = IF cell_i + 1 < cfg.num_cells THEN cell_i + 1 ELSE 0
            /\ pc' = IF cell_i + 1 < cfg.num_cells THEN "footprints" ELSE "spikes"
            /\ UNCHANGED <<result, error>>
    /\ UNCHANGED <<cfg, calls, first, motion_shifts, cell_traces, spikes_all,
                   movie, moved_movie, noise, subVars>>

\* what follows an accepted train: lines 217-227, the train is stored,
\* filtered, and the trace is stored
StoreTrain(spikes) ==
    /\ spikes_all' = [spikes_all EXCEPT ![cell_i] = spikes]
    /\ IF cfg.use_ar2 /\ (cfg.tau_decay = 0 \/ cfg.tau_rise = 0)
       THEN /\ Raise("ZeroDivisionError")
            /\ UNCHANGED <<cell_traces, cell_i>>
       ELSE /\ cell_traces' = [cell_traces EXCEPT ![cell_i] =
                    IF cfg.use_ar2
                    THEN apply_ar2_filter(spikes,
                            ar2_coeffs(cfg.tau_decay, cfg.tau_rise))
                    ELSE bi_exp_filter(spikes, cfg.tau_decay, cfg.tau_rise)]
            /\ cell_i' = IF cell_i + 1 < cfg.num_cells THEN cell_i + 1 ELSE 0
            /\ pc' = IF cell_i + 1 < cfg.num_cells THEN "spikes" ELSE "combine"
            /\ UNCHANGED <<result, error>>

\* line 216 of SimCaD.py: generate_markov_spikes for cell i, one iteration
\* of its loop at a time
MarkovSpikes ==
    /\ pc = "spikes"
    /\ cfg.variant = "markov"
    /\ IF ~MarkovAssert(cfg.spike_transition_matrix)
       THEN /\ Raise("AssertionError")
            /\ UNCHANGED <<rng, spikes_all, cell_traces, cell_i>>
       ELSE LET spikes == MarkovChain(cfg.num_frames,
                                      cfg.spike_transition_matrix, rng)
            IN  /\ rng' = RngAdvance(rng, MarkovDraws(cfg.num_frames))
                /\ IF Accepted(spikes)
                   THEN StoreTrain(spikes)
                   ELSE UNCHANGED <<pc, result, error, spikes_all,
                                    cell_traces, cell_i>>
    /\ UNCHANGED <<cfg, calls, first, motion_shifts, cell_masks,
                   movie, moved_movie, noise, subVars>>

\* lines 248-251 of SimCaD_Hawkes.py: generate_hawkes_spikes for cell i
HawkesSpikes ==
    /\ pc = "spikes"
    /\ cfg.variant = "hawkes"
    /\ LET spikes == HawkesChain(cfg.num_frames, cfg.hawkes_mu,
                                 cfg.hawkes_alpha, cfg.hawkes_tau, rng)
       IN  /\ rng' = RngAdvance(rng, HawkesDraws(cfg.num_frames))
           /\ IF Accepted(spikes)
              THEN StoreTrain(spikes)
              ELSE UNCHANGED <<pc, result, error, spikes_all,
                               cell_traces, cell_i>>
    /\ UNCHANGED <<cfg, calls, first, motion_shifts, cell_masks,
                   movie, moved_movie, noise, subVars>>

\* step 3, one iteration of the loop over the cells: every frame of the
\* movie is updated in place with the contribution of cell i
Combine ==
    /\ pc = "combine"
    /\ cell_i < cfg.num_cells
    /\ movie' = Accumulate(cfg, movie, cell_i, cell_traces, cell_masks)
    /\ cell_i' = IF cell_i + 1 < cfg.num_cells THEN cell_i + 1 ELSE 0
    /\ pc' = IF cell_i + 1 < cfg.num_cells THEN "combine" ELSE "background"
    /\ UNCHANGED <<rng, cfg, calls, first, result, error,
                   motion_shifts, cell_masks, cell_traces, spikes_all,
                   moved_movie, noise, subVars>>

\* step 4: movie += background_strength
Background ==
    /\ pc = "background"
    /\ movie' = [t \in DOMAIN movie |-> [y \in DOMAIN movie[t] |->
                    [x \in DOMAIN movie[t][y] |->
                        movie[t][y][x]
                            + InMovieUnits(cfg.background_strength)]]]
    /\ pc' = "motion"
    /\ UNCHANGED <<rng, cfg, calls, first, result, error, cell_i,
                   motion_shifts, cell_masks, cell_traces, spikes_all,
                   moved_movie, noise, subVars>>

\* step 5
Motion ==
    /\ pc = "motion"
    /\ IF \E t \in 0..(cfg.num_frames - 1) :
            ShiftRaises(cfg.height, cfg.width,
                        motion_shifts[t][1], motion_shifts[t][2])
       THEN /\ Raise("ValueError")
            /\ moved_movie' = [t \in 0..(cfg.num_frames - 1) |->
                    IF \A s \in 0..t :
                          ~ShiftRaises(cfg.height, cfg.width,
                                       motion_shifts[s][1], motion_shifts[s][2])
                    THEN shift_frame(movie[t], motion_shifts[t],
                                     InMovieUnits(cfg.background_strength))
                    ELSE ZeroMovie(1, cfg.height, cfg.width)[0]]
       ELSE /\ moved_movie' = [t \in 0..(cfg.num_frames - 1) |->
                    shift_frame(movie[t], motion_shifts[t],
                                InMovieUnits(cfg.background_strength))]
            /\ pc' = "noise"
            /\ UNCHANGED <<result, error>>
    /\ UNCHANGED <<rng, cfg, calls, first, cell_i, motion_shifts, cell_masks,
                   cell_traces, spikes_all, movie, noise, subVars>>

\* step 6
Noise ==
    /\ pc = "noise"
    /\ noise' = NoiseField(cfg, rng)
    /\ moved_movie' = AddMovies(moved_movie, NoiseField(cfg, rng))
    /\ rng' = RngAdvance(rng, cfg.num_frames * cfg.height * cfg.width)
    /\ pc' = "clip"
    /\ UNCHANGED <<cfg, calls, first, result, error, cell_i, motion_shifts,
                   cell_masks, cell_traces, spikes_all, movie, subVars>>

\* step 7 and the return
ClipReturn ==
    /\ pc = "clip"
    /\ LET quantized == [t \in DOMAIN moved_movie |->
                [y \in DOMAIN moved_movie[t] |->
                    [x \in DOMAIN moved_movie[t][y] |->
                        ClipQuantize(moved_movie[t][y][x])]]]
       IN  /\ moved_movie' = quantized
           /\ result' = ReturnTuple(quantized, cell_masks, cell_traces,
                                    spikes_all, motion_shifts)
    /\ pc' = "done"
    /\ UNCHANGED <<rng, cfg, calls, first, error, cell_i, motion_shifts,
                   cell_masks, cell_traces, spikes_all, movie, noise, subVars>>

\* the process calls again with the same arguments; the module and its rng
\* are the ones the earlier call left
CallAgain ==
    /\ pc = "done"
    /\ calls < MaxCalls
    /\ calls' = calls + 1
    /\ first' = IF calls = 1 THEN result ELSE first
    /\ result' = NoResult
    /\ error' = ""
    /\ pc' = "call"
    /\ cell_i' = 0 /\ motion_shifts' = <<>> /\ cell_masks' = <<>>
    /\ cell_traces' = <<>> /\ spikes_all' = <<>>
    /\ movie' = <<>> /\ moved_movie' = <<>> /\ noise' = <<>>
    /\ UNCHANGED <<rng, cfg, subVars>>

Next ==
    \/ Allocate \/ Footprint \/ MarkovSpikes \/ HawkesSpikes
    \/ Combine \/ Background \/ Motion \/ Noise \/ ClipReturn \/ CallAgain

Spec == Init /\ [][Next]_vars

-----------------------------------------------------------------------------
(* Claims about the whole call *)

Pixels == {<<y, x>> : y \in 0..(cfg.height - 1), x \in 0..(cfg.width - 1)}
Frames == 0..(cfg.num_frames - 1)

\* C3: every pixel of a returned movie is an integer in 0..255.
C3_PixelsInRange ==
    pc = "done" =>
        \A t \in Frames : \A p \in Pixels :
            result.movie[t][p[1]][p[2]] \in 0..255

\* a returned movie in which the clip acted at both ends: a pixel below 0 and
\* a pixel above 255 before it
C3_Witness ==
    /\ pc = "done"
    /\ cfg.max_shift = 0
    /\ \E t \in Frames : \E p \in Pixels :
          /\ movie[t][p[1]][p[2]] + noise[t][p[1]][p[2]] < 0
          /\ result.movie[t][p[1]][p[2]] = 0
    /\ \E t \in Frames : \E p \in Pixels :
          /\ movie[t][p[1]][p[2]] + noise[t][p[1]][p[2]] > 255 * MovieOne
          /\ result.movie[t][p[1]][p[2]] = 255

\* C4: a call with the same arguments as an earlier call of the process
\* returns the same movie, traces, spike trains, footprints and shifts: a call
\* leaves nothing behind for the next.
C4_SameOutputsOnRerun ==
    (pc = "done" /\ calls >= 2) => result = first

\* C5: a call that fails returns nothing, and a call that returns returns
\* the movie, the footprints, the traces, the spike trains and the motion
\* shifts together.
C5_AllOrNothing ==
    /\ pc = "raised" => result = NoResult
    /\ result # NoResult =>
          /\ pc = "done"
          /\ DOMAIN result = {"movie", "cell_masks", "cell_traces",
                              "spikes_all", "motion_shifts"}

\* a call that failed after it had drawn the motion, built a footprint and
\* stored a spike train
C5_Witness ==
    /\ pc = "raised"
    /\ cfg.num_cells >= 1
    /\ result = NoResult
    /\ motion_shifts # <<>>
    /\ \E p \in Pixels : cell_masks[0][p[1]][p[2]] > 0
    /\ \E t \in 1..cfg.num_frames : spikes_all[0][t] = 1

\* C7: with max_shift = 0 every motion shift is (0, 0), the translation
\* changes no pixel, and the returned movie is the unshifted composite plus
\* noise, clipped and quantized.
C7_NoMotion ==
    cfg.max_shift = 0 =>
        /\ \A t \in DOMAIN motion_shifts : motion_shifts[t] = <<0, 0>>
        /\ pc = "noise" => moved_movie = movie
        /\ pc = "done" =>
              \A t \in Frames : \A p \in Pixels :
                  result.movie[t][p[1]][p[2]] =
                      ClipQuantize(movie[t][p[1]][p[2]] + noise[t][p[1]][p[2]])

\* a returned movie of two frames or more, with noise and a visible cell
C7_Witness ==
    /\ pc = "done"
    /\ cfg.max_shift = 0
    /\ cfg.noise_sigma > 0
    /\ cfg.num_frames >= 2
    /\ \E t \in Frames : \E p \in Pixels : movie[t][p[1]][p[2]] > 0
    /\ \E t \in Frames : \E p \in Pixels : noise[t][p[1]][p[2]] # 0

\* the end-to-end scenario: one cell, no noise, no background, no motion
Scenario ==
    /\ pc = "done"
    /\ cfg.num_cells = 1
    /\ cfg.noise_sigma = 0
    /\ cfg.background_strength = 0
    /\ cfg.max_shift = 0

PeakPixels ==
    {p \in Pixels :
        cell_masks[0][p[1]][p[2]] = SetMax(FrameValues(cell_masks[0]))}

ClipRound(v) == Min(Max(RoundHalfEven(v), 0), 255)

\* the factor the variant applies to a cell's trace
TraceGain ==
    IF cfg.variant = "markov" THEN One ELSE cfg.cell_snr

\* C10 as stated: in the scenario, with every other argument at its default,
\* the pixel at the footprint peak is round(trace[t] * 1.0) clipped to
\* [0, 255], within 1, at every frame and in both variants.
C10_PeakFollowsTrace ==
    (Scenario /\ cfg = BaseConfig(cfg.variant, 1, cfg.num_frames)) =>
        \A t \in Frames : \A p \in PeakPixels :
            Abs(result.movie[t][p[1]][p[2]]
                - ClipRound(cell_traces[0][t + 1])) <= 1

\* C10 amended: in the scenario the pixel at the footprint peak is
\* round(gain * trace[t]) clipped to [0, 255], within 1, where the gain is 1
\* in the Markov variant and cell_snr in the Hawkes variant.
C10_PeakFollowsScaledTrace ==
    Scenario =>
        \A t \in Frames : \A p \in PeakPixels :
            Abs(result.movie[t][p[1]][p[2]]
                - ClipRound(FMul(TraceGain, cell_traces[0][t + 1]))) <= 1

\* the scenario in the Hawkes variant with the default cell_snr of 5: a
\* trace value of 1.0 shows as the pixel 5
C10_Witness ==
    /\ Scenario
    /\ cfg.variant = "hawkes"
    /\ cfg.cell_snr = 5 * One
    /\ \E t \in Frames : \E p \in PeakPixels :
          /\ cell_traces[0][t + 1] = One
          /\ result.movie[t][p[1]][p[2]] = 5


\* the calcium filter the call applies to a spike train (lines 219-225)
CalciumFilter(c, spikes) ==
    IF c.use_ar2 THEN apply_ar2_filter(spikes, ar2_coeffs(c.tau_decay, c.tau_rise))
    ELSE bi_exp_filter(spikes, c.tau_decay, c.tau_rise)

IsFrame(f, h, w) ==
    /\ DOMAIN f = 0..(h - 1)
    /\ \A y \in DOMAIN f : DOMAIN f[y] = 0..(w - 1)

\* C12: a call that returns gives a movie of shape frames x height x width,
\* footprints of shape cells x height x width, traces and spike trains of
\* shape cells x frames and motion shifts of shape frames x 2; every returned
\* trace is the filter output of the returned spike train of its cell, and
\* every returned frame is the composite of the returned traces and
\* footprints, translated by the returned shift of that frame, plus the
\* noise, clipped and quantized.
C12_ReturnedBundleConsistent ==
    pc = "done" =>
        LET cells == 0..(cfg.num_cells - 1)
            raw == RawMovie(cfg, result.cell_traces, result.cell_masks)
        IN  /\ DOMAIN result.movie = Frames
            /\ \A t \in Frames : IsFrame(result.movie[t], cfg.height, cfg.width)
            /\ DOMAIN result.cell_masks = cells
            /\ \A i \in cells :
                  IsFrame(result.cell_masks[i], cfg.height, cfg.width)
            /\ DOMAIN result.cell_traces = cells
            /\ DOMAIN result.spikes_all = cells
            /\ \A i \in cells :
                  /\ DOMAIN result.cell_traces[i] = 1..cfg.num_frames
                  /\ DOMAIN result.spikes_all[i] = 1..cfg.num_frames
                  /\ result.cell_traces[i] =
                        CalciumFilter(cfg, result.spikes_all[i])
            /\ DOMAIN result.motion_shifts = Frames
            /\ \A t \in Frames :
                  /\ DOMAIN result.motion_shifts[t] = 1..2
                  /\ \A p \in Pixels :
                        result.movie[t][p[1]][p[2]] =
                            ClipQuantize(
                                shift_frame(raw[t], result.motion_shifts[t],
                                    InMovieUnits(cfg.background_strength)
                                    )[p[1]][p[2]]
                                + noise[t][p[1]][p[2]])

\* a returned call with two cells, a frame that moved, and a trace that is
\* not its spike train
C12_Witness ==
    /\ pc = "done"
    /\ cfg.num_cells = 2
    /\ \E t \in Frames : result.motion_shifts[t] # <<0, 0>>
    /\ \E i \in 0..1 : \E t \in 1..cfg.num_frames :
          result.cell_traces[i][t] # One * result.spikes_all[i][t]

\* where a call is once its cells have their spike trains
PastSpikes == {"combine", "background", "motion", "noise", "clip", "done"}

\* C13: a call of the Markov generator whose transition matrix is not 2x2, or
\* has a row that does not sum to 1, fails with an error and returns
\* nothing, whatever the cell count, the frame count and the sizes.
C13_InvalidMatrixFails ==
    (/\ cfg.variant = "markov"
     /\ cfg.spike_transition_matrix # NoMatrix
     /\ ~MarkovAssert(cfg.spike_transition_matrix))
        => /\ pc \notin PastSpikes
           /\ result = NoResult
           /\ pc = "raised" => error \in {"AssertionError", "ValueError"}

InvalidHawkesParams ==
    \/ cfg.hawkes_mu <= 0 \/ cfg.hawkes_mu >= One
    \/ cfg.hawkes_tau <= 0 \/ cfg.tau_decay <= 0 \/ cfg.tau_rise <= 0

\* C14: a call of the Hawkes generator with mu outside the open interval
\* (0,1), or with a time constant that is not positive, fails with an error
\* before any spike is drawn: it does not reach the loop that draws spike
\* trains, and it returns nothing.
C14_InvalidHawkesFailsEarly ==
    (cfg.variant = "hawkes" /\ InvalidHawkesParams)
        => /\ pc \notin ({"spikes"} \cup PastSpikes)
           /\ result = NoResult

\* C15: a call with num_cells <= 0 or num_frames <= 0 fails with an error and
\* returns no movie, footprints, traces, spike trains or motion shifts.
C15_NoCellsOrFramesFails ==
    (cfg.num_cells <= 0 \/ cfg.num_frames <= 0)
        => /\ pc \in {"call", "raised"}
           /\ result = NoResult

\* the train one pass of the spike loop draws from r, and the draws it takes
FirstTry(c, r) ==
    IF c.variant = "markov"
    THEN MarkovChain(c.num_frames, c.spike_transition_matrix, r)
    ELSE HawkesChain(c.num_frames, c.hawkes_mu, c.hawkes_alpha, c.hawkes_tau, r)

DrawsPerTry(c) ==
    IF c.variant = "markov" THEN MarkovDraws(c.num_frames)
    ELSE HawkesDraws(c.num_frames)

\* the generator state at the pass of `while True` that is accepted, when
\* the loop is entered with r (the tape is read circularly: a loop that
\* accepts nothing in Len(r.tape) passes accepts nothing at all)
RECURSIVE AcceptedAt(_, _, _)
AcceptedAt(c, r, fuel) ==
    IF Accepted(FirstTry(c, r)) \/ fuel = 0 THEN r
    ELSE AcceptedAt(c, RngAdvance(r, DrawsPerTry(c)), fuel - 1)

AcceptedTrain(c, r) == FirstTry(c, AcceptedAt(c, r, Len(r.tape)))

\* the generator state with which the spike loop of cell j is entered, in a
\* call that started with r0: after the motion, the footprints, and the
\* passes of the cells before j
RECURSIVE CellStart(_, _, _)
CellStart(c, r0, j) ==
    IF j = 0 THEN RngAdvance(r0, 2 * c.num_frames + 4 * c.num_cells)
    ELSE RngAdvance(AcceptedAt(c, CellStart(c, r0, j - 1), Len(r0.tape)),
                    DrawsPerTry(c))

\* the draws that the rejected passes of a loop entered with r took
RetryDraws(c, r) ==
    (AcceptedAt(c, r, Len(r.tape)).pos - r.pos) % Len(r.tape)

CallStart == [tape |-> rng.tape, pos |-> 0]

\* C16: a rejected attempt in the spike generation of one cell does not
\* affect the other cells: the footprint, the spike train and the trace of
\* every other cell, and the motion shifts, are what they would be had the
\* first attempt of that cell been accepted, i.e. had the rejected passes
\* taken no draw.
C16_RetryIsLocal ==
    (pc = "done" /\ calls = 1) =>
        \A i \in 0..(cfg.num_cells - 1), j \in 0..(cfg.num_cells - 1) :
            LET start_i == CellStart(cfg, CallStart, i)
                start_j == CellStart(cfg, CallStart, j)
                back == IF i < j THEN RetryDraws(cfg, start_i) ELSE 0
                undone == RngAdvance(start_j, Len(rng.tape) - back)
            IN  (i # j /\ ~Accepted(FirstTry(cfg, start_i))) =>
                    /\ spikes_all[j] = AcceptedTrain(cfg, undone)
                    /\ cell_traces[j] =
                          CalciumFilter(cfg, AcceptedTrain(cfg, undone))
                    /\ cell_masks[j] = CellFootprint(cfg,
                          RngAdvance(CallStart, 2 * cfg.num_frames + 4 * j))
                    /\ motion_shifts = random_motion(cfg.num_frames,
                          cfg.max_shift, cfg.motion_smoothing, CallStart)

\* C17: the draws that feed a cell or a frame are fixed by the seed and the
\* index alone, whatever the other cells and frames take from the random
\* source: the loop of cell j is entered at the place of the tape that
\* belongs to j, and the noise of the frames is read from the place that
\* belongs to the frames, with no regard to the passes other cells needed.
C17_DrawsAddressedByIndex ==
    (pc \in {"clip", "done"} /\ calls = 1) =>
        LET base == 2 * cfg.num_frames + 4 * cfg.num_cells
            own(j) == RngAdvance(CallStart, base + j * DrawsPerTry(cfg))
        IN  /\ \A j \in 0..(cfg.num_cells - 1) :
                  spikes_all[j] = AcceptedTrain(cfg, own(j))
            /\ noise = NoiseField(cfg, own(cfg.num_cells))

IsZeroFrame(f) == \A y \in DOMAIN f : \A x \in DOMAIN f[y] : f[y][x] = 0

\* an array of frames, or of rows, none of whose written elements the step
\* changes; an element is written once it differs from the zeros it was
\* allocated with
FramesKept(a, b) ==
    \A k \in DOMAIN a : IsZeroFrame(a[k]) \/ (k \in DOMAIN b /\ b[k] = a[k])
RowsKept(a, b) ==
    \A k \in DOMAIN a :
        (\A n \in DOMAIN a[k] : a[k][n] = 0) \/ (k \in DOMAIN b /\ b[k] = a[k])

\* C18: within a call, every footprint, spike train, trace, motion shift and
\* movie frame is written once and never modified afterwards: no step
\* changes an element that has been written.
C18_WrittenOnce ==
    [][pc' # "call" =>
          /\ FramesKept(cell_masks, cell_masks')
          /\ RowsKept(spikes_all, spikes_all')
          /\ RowsKept(cell_traces, cell_traces')
          /\ RowsKept(motion_shifts, motion_shifts')
          /\ FramesKept(movie, movie')
          /\ FramesKept(moved_movie, moved_movie')]_vars

\* background_strength + cell_snr * sum over the cells of trace * footprint
SnrScaledFrame(c, traces, masks, t, y, x) ==
    LET term(k) == MulRound(traces[k][t + 1] * masks[k][y][x], c.cell_snr, 11)
        sum[k \in 0..c.num_cells] ==
            IF k = 0 THEN 0 ELSE sum[k - 1] + term(k - 1)
    IN  InMovieUnits(c.background_strength) + sum[Max(c.num_cells, 0)]

\* C19: in either file the frame t before motion and noise is
\* background_strength + cell_snr * sum over the cells of
\* trace[cell, t] * footprint[cell].
C19_SnrScalesCells ==
    pc = "motion" =>
        \A t \in Frames : \A p \in Pixels :
            movie[t][p[1]][p[2]] =
                SnrScaledFrame(cfg, cell_traces, cell_masks, t, p[1], p[2])

\* the frame t of the raw movie translated by its shift, background filled
Translated(t) ==
    shift_frame(movie[t], motion_shifts[t],
                InMovieUnits(cfg.background_strength))

\* C21: the steps of compositing happen in this order: background plus the
\* cell contributions, then the translation with background fill, then the
\* noise on every pixel, then the clip and the quantization.  Before the
\* raw movie is complete nothing is translated and no noise is drawn; the
\* translation acts on the raw movie and on no noise; the noise is added as
\* drawn to every translated pixel, exposed ones included, and to values
\* that are neither clipped nor quantized; the returned movie is the clip
\* of that sum.
C21_StepOrder ==
    /\ pc \in {"footprints", "spikes", "combine", "background", "motion"}
          => moved_movie = <<>> /\ noise = <<>>
    /\ pc \in {"motion", "noise", "clip", "done"}
          => movie = RawMovie(cfg, cell_traces, cell_masks)
    /\ pc = "noise"
          => /\ noise = <<>>
             /\ \A t \in Frames : moved_movie[t] = Translated(t)
    /\ pc = "clip"
          => \A t \in Frames : \A p \in Pixels :
                moved_movie[t][p[1]][p[2]] =
                    Translated(t)[p[1]][p[2]] + noise[t][p[1]][p[2]]
    /\ pc = "done"
          => \A t \in Frames : \A p \in Pixels :
                result.movie[t][p[1]][p[2]] =
                    ClipQuantize(Translated(t)[p[1]][p[2]]
                                 + noise[t][p[1]][p[2]])

\* before the clip: a frame that moved, an exposed pixel that holds the
\* background plus a noise that is not zero, and a pixel out of [0,255]
C21_Witness ==
    /\ pc = "clip"
    /\ cfg.background_strength # 0
    /\ \E t \in Frames : \E p \in Pixels :
          /\ Exposed(cfg.height, cfg.width, motion_shifts[t][1],
                     motion_shifts[t][2], p[1], p[2])
          /\ noise[t][p[1]][p[2]] # 0
          /\ moved_movie[t][p[1]][p[2]] =
                InMovieUnits(cfg.background_strength) + noise[t][p[1]][p[2]]
    /\ \E t \in Frames : \E p \in Pixels :
          moved_movie[t][p[1]][p[2]] > 255 * MovieOne

\* the upper end of the sigma range of a file
SigmaHigh(variant) ==
    IF variant = "markov" THEN MarkovSigmaHigh ELSE HawkesSigmaHigh

\* the positions a centre may take along an axis of the given length
CenterRange(dim) == {p \in 0..(dim - 1) : Pad <= p /\ p < dim - Pad}

\* C28: for every cell the footprint centre (cy, cx) satisfies
\* 5 <= cy < height - 5 and 5 <= cx < width - 5, and sigma_y and sigma_x lie
\* within the sigma range of the file ([3, 4) in SimCaD.py, [3, 5) in
\* SimCaD_Hawkes.py); when height or width leaves no such centre, the call
\* fails instead of placing a centre outside that range.
C28_CentersAndSigmasInRange ==
    [][pc = "footprints" =>
        IF CenterRange(cfg.height) = {} \/ CenterRange(cfg.width) = {}
        THEN /\ pc' = "raised"
             /\ error' = "ValueError"
             /\ cell_masks' = cell_masks
        ELSE LET center == CellCenter(cfg, rng)
                 sigmas == CellSigmas(cfg, rng)
             IN  /\ center[1] \in CenterRange(cfg.height)
                 /\ center[2] \in CenterRange(cfg.width)
                 /\ \A k \in 1..2 :
                       /\ SigmaLow * One <= sigmas[k]
                       /\ sigmas[k] < SigmaHigh(cfg.variant) * One
                 /\ pc' \in {"footprints", "spikes"}
                 /\ cell_masks'[cell_i] =
                       IF cfg.variant = "markov"
                       THEN MarkovFootprint(cfg.height, cfg.width, center,
                                            sigmas[1], sigmas[2])
                       ELSE HawkesFootprint(cfg.height, cfg.width, center,
                                            sigmas[1], sigmas[2])]_vars

\* the footprints are placed on a frame that leaves more than one position
\* to the centre: the first cell's footprint peaks away from the lowest
\* position, at a centre within the range, and its two sigmas differ
C28_Witness ==
    /\ pc = "spikes"
    /\ cfg.num_cells >= 1
    /\ Cardinality(CenterRange(cfg.height)) > 1
    /\ LET r == RngAdvance(CallStart, 2 * cfg.num_frames)
           center == CellCenter(cfg, r)
           sigmas == CellSigmas(cfg, r)
       IN  /\ center[1] > Pad
           /\ sigmas[1] # sigmas[2]
           /\ cell_masks[0][center[1]][center[2]]
                = SetMax(FrameValues(cell_masks[0]))
           /\ cell_masks[0][center[1]][center[2]] > 0

\* C29: compositing never fails because of a large motion shift: for every
\* shift the motion model emits, shifts beyond the frame included, the
\* translation of every frame completes with a frame of the input's shape,
\* which holds the fill value everywhere when no source pixel maps into it.
C29_LargeShiftNeverFails ==
    [][pc = "motion" =>
        /\ pc' = "noise"
        /\ \A t \in 0..(cfg.num_frames - 1) :
              /\ IsFrame(moved_movie'[t], cfg.height, cfg.width)
              /\ (\A y \in 0..(cfg.height - 1), x \in 0..(cfg.width - 1) :
                     Exposed(cfg.height, cfg.width, motion_shifts[t][1],
                             motion_shifts[t][2], y, x))
                  => \A y \in 0..(cfg.height - 1), x \in 0..(cfg.width - 1) :
                        moved_movie'[t][y][x] = InMovieUnits(cfg.background_strength)]_vars
====
